---- MODULE Spec2Model ----
(***************************************************************************)
(* Model of provisioner/terraform/provision.go: one Provision session.     *)
(* The session is the main control thread of Provision plus its four       *)
(* goroutines (cancel listener, raw init relay, structured plan/apply      *)
(* relay, shutdown-to-interrupt watcher), the client at the other end of   *)
(* the stream and the engine processes (version, init, plan/apply).        *)
(* The functions that parse the artifacts (parseTerraformPlan,             *)
(* parseTerraformApply, findDirectDependencies) are modelled as operators  *)
(* and have specifications of their own over bounded artifacts.            *)
(***************************************************************************)
EXTENDS Integers, Sequences, FiniteSets, TLC

\* ------------------------------------------------------------------ bounds
MaxRawLines == 1    \* lines `terraform init` writes to its stdout
MaxOutLines == 2    \* lines the plan/apply process writes to its stdout
MaxParams == 2      \* length of Start.ParameterValues
MaxLiveOutLines == 1  \* lines the plan/apply process writes in SpecLive
MaxNodes == 3       \* nodes of a graph
MaxResources == 2   \* resources of a root module
MaxDeps == 2        \* length of a dependency list
MaxEdges == 2       \* edges of a graph

\* ------------------------------------------------------------- data values
Nil == "nil"                 \* a nil error / a nil pointer
NoFile == "<no file>"        \* the state file does not exist
NoStart == [none |-> TRUE]   \* no Start request received yet
NoCmd == [none |-> TRUE]     \* exec.CommandContext not called yet
NoLine == [kind |-> "none"]  \* nothing buffered in a relay

\* proto.ParameterDestination_Scheme values; UNKNOWN stands for every value
\* that is neither of the two the switch names.
Schemes == {"ENVIRONMENT_VARIABLE", "PROVISIONER_VARIABLE", "UNKNOWN"}
ParamNames == {"a", "b"}
ParamValues == {"1"}
Params == [name : ParamNames, value : ParamValues, scheme : Schemes]

RECURSIVE SeqsUpTo(_, _)
SeqsUpTo(S, n) ==
    IF n = 0 THEN {<<>>}
    ELSE LET shorter == SeqsUpTo(S, n - 1)
         IN shorter \cup {Append(s, x) : s \in {t \in shorter : Len(t) = n - 1}, x \in S}

ParamLists == SeqsUpTo(Params, MaxParams)

\* The parameter lists of the session specification: enough to take each
\* branch of the classification switch.
SessionParamLists ==
    { << [name |-> "a", value |-> "1", scheme |-> "ENVIRONMENT_VARIABLE"],
         [name |-> "b", value |-> "1", scheme |-> "PROVISIONER_VARIABLE"] >>,
      << [name |-> "a", value |-> "1", scheme |-> "UNKNOWN"] >> }

\* Lines the plan/apply process may write to its stdout: a line that is not
\* JSON, and decodable terraformProvisionLog records. The engine's diagnostics
\* carry the severity "error" or "warning".
Malformed == [kind |-> "malformed"]
NoDiag == [none |-> TRUE]
Rec(level, message, diag) ==
    [kind |-> "record", level |-> level, message |-> message, diagnostic |-> diag]
OutLines ==
    { Malformed,
      Rec("INFO", "m1", NoDiag),
      Rec("bogus", "m2", NoDiag),
      Rec("error", "m3", [severity |-> "error", detail |-> "d3"]),
      Rec("WARN", "m4", [severity |-> "warning", detail |-> "d4"]) }

\* ---------------------------------------------------------------- state
VARIABLES
    clientStart,   \* the Start payload the client sends if it opens with Start
    pc,            \* position of the main control thread of Provision
    request,       \* kind of the first message received ("none" before)
    start,         \* request.GetStart()
    retErr,        \* value returned by Provision ("running" before it returns)
    streamDone,    \* stream.Context() is cancelled
    shutdown,      \* the shutdown context is done
    listener,      \* cancel listener goroutine: "off", "recv", "done"
    cancelAt,      \* the phase of the session in which the client's Cancel was
                   \* received by the listener ("none" before)
    statefile,     \* content of <directory>/terraform.tfstate
    engineCmds,    \* engine commands invoked so far, in order
    raw,           \* raw relay goroutine: "off", "scan", "send", "done"
    rawBuf,        \* the line the scanner holds
    rawClosed,     \* first pipe closed (reader or writer side)
    rawLeft,       \* lines init may still write
    env, vars,     \* the locals env and vars after classification
    cmd,           \* the exec.Cmd: args, env, Process
    rel,           \* structured relay: "off", "decode", "send", "send_diag", "done"
    relBuf,        \* the record the relay decoded
    relClosed,     \* second pipe closed (reader or writer side)
    pending,       \* child output not yet consumed from the second pipe
    outLeft,       \* lines the child may still write
    child,         \* plan/apply process: "none", "running", "exited"
    exitCode,      \* its exit code
    runErr,        \* err of cmd.Run()
    watcher,       \* interrupt watcher goroutine: "off", "select", "done"
    signalCalls,   \* cmd.Process.Signal calls: the handle each was made on
    crashed,       \* the program panicked
    sent,          \* responses sent on the stream, in order
    parsePc,       \* position in the artifact parsing functions ("idle": not called)
    rawGraph,      \* the graph terraform.Graph returned
    resourceDependencies,  \* the map findDirectDependencies returned
    listing,       \* the resources of the plan's or the state's root module
    agents,        \* the agent table
    resourceList   \* the local `resources` of the parsing functions

vars_main == <<clientStart, pc, request, start, retErr, statefile, engineCmds, env, vars, cmd, runErr>>
vars_env == <<streamDone, listener, cancelAt, child, exitCode, pending, outLeft>>
vars_relays == <<raw, rawBuf, rawClosed, rawLeft, rel, relBuf, relClosed, watcher, signalCalls, crashed, sent>>
vars_session == <<vars_main, vars_env, vars_relays, shutdown>>
vars_parse == <<parsePc, rawGraph, resourceDependencies, listing, agents, resourceList>>
allvars == <<vars_session, vars_parse>>

\* ------------------------------------------------------- pure functions

\* strings.ToLower on the strings the model uses.
ToLower(s) ==
    CASE s = "INFO" -> "info"
      [] s = "WARN" -> "warn"
      [] s = "START" -> "start"
      [] s = "STOP" -> "stop"
      [] s = "DESTROY" -> "destroy"
      [] OTHER -> s

\* convertTerraformLogLevel: the proto level, or an error for any other string.
convertTerraformLogLevel(logLevel) ==
    LET l == ToLower(logLevel)
    IN CASE l = "trace" -> [err |-> Nil, level |-> "TRACE"]
         [] l = "debug" -> [err |-> Nil, level |-> "DEBUG"]
         [] l = "info" -> [err |-> Nil, level |-> "INFO"]
         [] l = "warn" -> [err |-> Nil, level |-> "WARN"]
         [] l = "error" -> [err |-> Nil, level |-> "ERROR"]
         [] OTHER -> [err |-> "invalid log level", level |-> "TRACE"]

\* fmt.Sprintf("%s=%s", name, value)
SprintfKV(name, value) == name \o "=" \o value

\* os.Environ() of the provisioner daemon.
OsEnviron == << "PATH=/bin" >>

\* provisionersdk.AgentScriptEnv(), as key=value strings.
AgentScriptEnv == << "CODER_AGENT_SCRIPT=sh" >>

\* Lines 108-117: the environment before the parameters are classified.
BaseEnv(st) ==
    OsEnviron
    \o << "CODER_URL=" \o st.coderUrl,
          "CODER_WORKSPACE_TRANSITION=" \o ToLower(st.transition),
          "CODER_WORKSPACE_NAME=" \o st.workspaceName,
          "CODER_WORKSPACE_OWNER=" \o st.workspaceOwner >>
    \o AgentScriptEnv

\* Faulty variant of ClassifyOne: the two destinations exchanged.
ClassifyOneSwapped(acc, param) ==
    CASE param.scheme = "ENVIRONMENT_VARIABLE" ->
            [acc EXCEPT !.vars = Append(@, SprintfKV(param.name, param.value))]
      [] param.scheme = "PROVISIONER_VARIABLE" ->
            [acc EXCEPT !.env = Append(@, SprintfKV(param.name, param.value))]
      [] OTHER -> [acc EXCEPT !.err = "unsupported parameter type"]

\* One iteration of the switch of lines 120-127 on acc = [err, env, vars].
ClassifyOne(acc, param) ==
    CASE param.scheme = "ENVIRONMENT_VARIABLE" ->
            [acc EXCEPT !.env = Append(@, SprintfKV(param.name, param.value))]
      [] param.scheme = "PROVISIONER_VARIABLE" ->
            [acc EXCEPT !.vars = Append(@, SprintfKV(param.name, param.value))]
      [] OTHER -> [acc EXCEPT !.err = "unsupported parameter type"]

\* The loop of lines 119-128: stops at the first unsupported scheme.
RECURSIVE ClassifyLoop(_, _)
ClassifyLoop(acc, params) ==
    IF params = <<>> \/ acc.err # Nil THEN acc
    ELSE ClassifyLoop(ClassifyOne(acc, Head(params)), Tail(params))

ClassifyParameters(st) ==
    ClassifyLoop([err |-> Nil, env |-> BaseEnv(st), vars |-> <<>>], st.parameterValues)

\* Lines 201-203: two arguments per variable.
RECURSIVE VarArgs(_)
VarArgs(vs) ==
    IF vs = <<>> THEN <<>> ELSE << "-var", Head(vs) >> \o VarArgs(Tail(vs))

\* Lines 177-203: the argument list of the plan/apply command.
BuildArgs(st, vs) ==
    (IF st.dryRun
        THEN << "plan", "-no-color", "-input=false", "-json", "-refresh=true",
                "-out=" \o st.directory \o "/terraform.tfplan" >>
        ELSE << "apply", "-no-color", "-auto-approve", "-input=false", "-json",
                "-refresh=true" >>)
    \o (IF st.transition = "DESTROY" THEN << "-destroy" >> ELSE <<>>)
    \o VarArgs(vs)

\* proto.Provision_Response values.
Log(level, output) == [type |-> "log", level |-> level, output |-> output]
Complete(resources, state, error) ==
    [type |-> "complete", resources |-> resources, state |-> state, error |-> error]

\* Faulty variant of Proceeds: the check of line 36 left out.
ProceedsAnyNonCancel(m) == m # "cancel"

\* Lines 32-38: only a Start first message proceeds.
Proceeds(m) == m # "cancel" /\ m = "start"

\* Faulty variant of IsCancel: every message is taken for a Cancel.
IsCancelAlways(m) == TRUE

\* Line 45: the listener acts on Cancel only.
IsCancel(m) == m = "cancel"

\* Faulty variant of DryRunFailureCompletes: shutdown is not consulted.
DryRunFailureCompletesNever(shutdownErr) == FALSE

\* Line 220: a failed dry run is reported as Complete when shutdown is done.
DryRunFailureCompletes(shutdownErr) == shutdownErr

\* Faulty variant of PlanError: the error is dropped.
PlanErrorSwallowed(e) == Nil

\* Line 229: the error a failed dry run returns without shutdown.
PlanError(e) == "plan terraform: " \o e

\* Faulty variant of ApplyFailureResponse: the state is left out.
ApplyFailureResponseNoState(statefileContent, errorMessage) ==
    Complete(<<>>, "", errorMessage)

\* Lines 238-245: the response to a failed apply.
ApplyFailureResponse(statefileContent, errorMessage) ==
    Complete(<<>>, statefileContent, errorMessage)

\* ------------------------------------------------------------ initial state
StartRequests(paramLists, transitions, states, dryRuns) ==
    [directory : {"/w"}, state : states, dryRun : dryRuns,
     transition : transitions, coderUrl : {"u"}, workspaceName : {"ws"},
     workspaceOwner : {"me"}, parameterValues : paramLists]

\* The artifact parsing functions have not been called.
NotCalled == "not called"
ParseIdle ==
    /\ parsePc = "idle" /\ rawGraph = NotCalled /\ resourceDependencies = NotCalled
    /\ listing = NotCalled /\ agents = NotCalled /\ resourceList = NotCalled

\* The state of a session when Provision is entered.
SessionInit(starts, nRaw, nOut) ==
    /\ clientStart \in starts
    /\ pc = "recv" /\ request = "none" /\ start = NoStart /\ retErr = "running"
    /\ streamDone = FALSE /\ shutdown = FALSE
    /\ listener = "off" /\ cancelAt = "none"
    /\ statefile = NoFile /\ engineCmds = <<>>
    /\ raw = "off" /\ rawBuf = NoLine /\ rawClosed = FALSE /\ rawLeft = nRaw
    /\ env = <<>> /\ vars = <<>> /\ cmd = NoCmd
    /\ rel = "off" /\ relBuf = NoLine /\ relClosed = FALSE
    /\ pending = <<>> /\ outLeft = nOut
    /\ child = "none" /\ exitCode = 0 /\ runErr = Nil
    /\ watcher = "off" /\ signalCalls = <<>> /\ crashed = FALSE
    /\ sent = <<>>

InitWith(starts, nRaw, nOut) == ParseIdle /\ SessionInit(starts, nRaw, nOut)

Init ==
    InitWith(StartRequests(SessionParamLists, {"START"}, {"", "s0"}, BOOLEAN),
             MaxRawLines, MaxOutLines)

\* Every parameter list up to MaxParams, in DESTROY sessions with at most
\* one line of output per process.
InitParams ==
    InitWith(StartRequests(ParamLists, {"DESTROY"}, {""}, BOOLEAN), 1, 1)

\* ------------------------------------------------------------ stream sends
\* stream.Send: delivers unless the stream's context is cancelled.
SendErr == IF streamDone THEN "send: stream closed" ELSE Nil
Sent(m) == IF streamDone THEN sent ELSE Append(sent, m)

\* ------------------------------------------------------- artifact parsing
\* The parsing functions are functions of the artifacts alone; they are also
\* run on their own, on every artifact within the bounds, with the session
\* at its entry.
NoSession ==
    SessionInit(StartRequests({<<>>}, {"START"}, {""}, {TRUE}), 0, 0)

\* A DOT string is a sequence of characters; an attribute value is kept as
\* written, with its quotes.
Quote == "\""
NoLabel == <<>>
NamesInOrder == << "n1", "n2", "n3", "n4" >>
NodeNames == { NamesInOrder[i] : i \in 1..MaxNodes }
Labels == { NoLabel, << Quote, "A", Quote >>, << "B" >>, << Quote, "C", Quote >> }

\* gographviz.NewAnalysedGraph: the nodes in the order of their declaration
\* (Nodes.Nodes), each with its label attribute if it has one, and the edges
\* (SrcToDsts and DstToSrcs are the two indexes of the same set of edges).
EdgeSets == { { q[i] : i \in DOMAIN q } : q \in SeqsUpTo(NodeNames \X NodeNames, MaxEdges) }
Graphs ==
    { [nodes |-> [i \in 1..MaxNodes |-> [Name |-> NamesInOrder[i], label |-> lab[i]]],
       edges |-> es] :
          lab \in [1..MaxNodes -> Labels], es \in EdgeSets }

SrcToDsts(graph, name) == { e[2] : e \in { d \in graph.edges : d[1] = name } }
DstToSrcs(graph, name) == { e[1] : e \in { d \in graph.edges : d[2] = name } }
Lookup(graph, name) ==
    { graph.nodes[i] : i \in { j \in DOMAIN graph.nodes : graph.nodes[j].Name = name } }

\* strings.Trim(label, `"`): every leading and every trailing quote removed.
RECURSIVE TrimLeft(_)
TrimLeft(str) ==
    IF str # <<>> /\ Head(str) = Quote THEN TrimLeft(Tail(str)) ELSE str
RECURSIVE TrimRight(_)
TrimRight(str) ==
    IF str # <<>> /\ str[Len(str)] = Quote
    THEN TrimRight(SubSeq(str, 1, Len(str) - 1)) ELSE str
Trim(str) == TrimRight(TrimLeft(str))

\* `for destination := range edges`: a Go map is ranged over in an order the
\* language leaves open; every order of the keys is possible.
RECURSIVE Orders(_)
Orders(keys) ==
    IF keys = {} THEN { <<>> }
    ELSE UNION { { << k >> \o rest : rest \in Orders(keys \ {k}) } : k \in keys }

\* Map assignment m[k] = v.
EmptyMap == << >>
Put(m, k, v) == [x \in DOMAIN m \cup {k} |-> IF x = k THEN v ELSE m[x]]

\* Lines 492-503: the trimmed labels of the labelled nodes among the
\* destinations, in the order of the range.
RECURSIVE LabelsAlong(_, _)
LabelsAlong(graph, order) ==
    IF order = <<>> THEN <<>>
    ELSE LET found == Lookup(graph, Head(order))
             rest == LabelsAlong(graph, Tail(order))
         IN IF found = {} THEN rest
            ELSE LET dependencyNode == CHOOSE n \in found : TRUE
                 IN IF dependencyNode.label = NoLabel THEN rest
                    ELSE << Trim(dependencyNode.label) >> \o rest

\* Faulty variant of Dependencies: the inbound edges left out.
DependenciesOutboundOnly(graph, node) ==
    { LabelsAlong(graph, o1) : o1 \in Orders(SrcToDsts(graph, node.Name)) }

\* Lines 487-504: the dependencies of one node, outbound edges first.
Dependencies(graph, node) ==
    { LabelsAlong(graph, o1) \o LabelsAlong(graph, o2) :
         o1 \in Orders(SrcToDsts(graph, node.Name)),
         o2 \in Orders(DstToSrcs(graph, node.Name)) }

\* Lines 479-506: the loop over the nodes; `direct` after the first n nodes,
\* for every order the ranges may take.
RECURSIVE DirectAfter(_, _)
DirectAfter(graph, n) ==
    IF n = 0 THEN { EmptyMap }
    ELSE LET node == graph.nodes[n]
             direct == DirectAfter(graph, n - 1)
         IN IF node.label = NoLabel THEN direct
            ELSE { Put(m, Trim(node.label), d) :
                      m \in direct, d \in Dependencies(graph, node) }

\* findDirectDependencies: the maps it may return for a graph.
findDirectDependencies(graph) == DirectAfter(graph, Len(graph.nodes))

\* Lines 268-275, 356-363: terraform.Graph, then findDirectDependencies.
FindDependencies ==
    /\ parsePc = "graph"
    /\ resourceDependencies' \in findDirectDependencies(rawGraph)
    /\ parsePc' = "graph_done"
    /\ UNCHANGED <<rawGraph, listing, agents, resourceList>>
    /\ UNCHANGED vars_session

InitGraph ==
    /\ NoSession
    /\ parsePc = "graph" /\ rawGraph \in Graphs
    /\ resourceDependencies = NotCalled
    /\ listing = NotCalled /\ agents = NotCalled /\ resourceList = NotCalled

NextGraph == FindDependencies

SpecGraph == InitGraph /\ [][NextGraph]_allvars

\* ---------------------------------------------------------- agents, resources
\* tfjson resources of a root module: the type, the name and the attributes
\* (the expressions of a plan's configuration, the attribute values of a
\* state): a function from the names of those present to their values.
ResourceTypes == {"coder_agent", "null_resource"}
ResourceNames == {"x", "y"}
AttrValues == {"", "v"}
AttrSets ==
    UNION { [names -> AttrValues] : names \in SUBSET {"token", "instance_id"} }
NoAttrs == << >>
AgentResources == [Type : {"coder_agent"}, Name : ResourceNames, attrs : AttrSets]
OtherResources == [Type : {"null_resource"}, Name : ResourceNames, attrs : {NoAttrs}]

\* strings.Join([]string{resource.Type, resource.Name}, "."); the Address of
\* a resource of the root module is the same string.
ResourceKey(resource) == resource.Type \o "." \o resource.Name

\* The auth oneof of proto.Agent.
Token(token) == [variant |-> "Token", value |-> token]
InstanceId(id) == [variant |-> "InstanceId", value |-> id]

\* mapstructure.Decode: an attribute that is absent decodes to "".
Attr(attrs, name) == IF name \in DOMAIN attrs THEN attrs[name] ELSE ""

\* Lines 285-306: the auth of an agent of a plan.
PlanAuth(attrs) ==
    IF "instance_id" \in DOMAIN attrs THEN InstanceId("") ELSE Token("")

\* Faulty variant of ApplyAuth: the token is preferred when there is one.
ApplyAuthTokenFirst(attrs) ==
    IF Attr(attrs, "token") # "" THEN Token(Attr(attrs, "token"))
    ELSE InstanceId(Attr(attrs, "instance_id"))

\* Lines 383-395: the auth of an agent of an applied state.
ApplyAuth(attrs) ==
    IF Attr(attrs, "instance_id") # "" THEN InstanceId(Attr(attrs, "instance_id"))
    ELSE Token(Attr(attrs, "token"))

\* Lines 281-309: the agents of a plan, keyed by address.
RECURSIVE PlanAgents(_, _)
PlanAgents(table, rs) ==
    IF rs = <<>> THEN table
    ELSE LET resource == Head(rs)
         IN IF resource.Type # "coder_agent" THEN PlanAgents(table, Tail(rs))
            ELSE PlanAgents(Put(table, ResourceKey(resource),
                                [Id |-> "", Auth |-> PlanAuth(resource.attrs)]),
                            Tail(rs))

\* Lines 374-398: the agents of a state, keyed by type.name.
RECURSIVE ApplyAgents(_, _)
ApplyAgents(table, rs) ==
    IF rs = <<>> THEN table
    ELSE LET resource == Head(rs)
         IN IF resource.Type # "coder_agent" THEN ApplyAgents(table, Tail(rs))
            ELSE ApplyAgents(Put(table, ResourceKey(resource),
                                 [Id |-> Attr(resource.attrs, "id"),
                                  Auth |-> ApplyAuth(resource.attrs)]),
                             Tail(rs))

\* A nil *proto.Agent.
NoAgent == [none |-> TRUE]

\* Faulty variant of FirstAgent: the loop does not break at the first match.
RECURSIVE LastAgent(_, _)
LastAgent(table, deps) ==
    IF deps = <<>> THEN NoAgent
    ELSE IF \E j \in 2..Len(deps) : deps[j] \in DOMAIN table
    THEN LastAgent(table, Tail(deps))
    ELSE IF Head(deps) \in DOMAIN table THEN table[Head(deps)] ELSE NoAgent

\* Lines 320-327, 410-417: the agent of the first dependency that is in the
\* agent table; nil if there is none.
RECURSIVE FirstAgent(_, _)
FirstAgent(table, deps) ==
    IF deps = <<>> THEN NoAgent
    ELSE IF Head(deps) \in DOMAIN table THEN table[Head(deps)]
    ELSE FirstAgent(table, Tail(deps))

\* Lines 310-334, 400-424: the loop that associates resources with agents.
RECURSIVE Associate(_, _, _)
Associate(rs, table, deps) ==
    IF rs = <<>> THEN <<>>
    ELSE LET resource == Head(rs)
             rest == Associate(Tail(rs), table, deps)
         IN IF resource.Type = "coder_agent" THEN rest
            ELSE IF ResourceKey(resource) \notin DOMAIN deps THEN rest
            ELSE << [Name |-> resource.Name, Type |-> resource.Type,
                     Agent |-> FirstAgent(table, deps[ResourceKey(resource)])] >> \o rest

\* parseTerraformPlan, lines 281-309.
PlanStoreAgents ==
    /\ parsePc = "plan_agents"
    /\ agents' = PlanAgents(EmptyMap, listing)
    /\ parsePc' = "plan_agents_done"
    /\ UNCHANGED <<rawGraph, resourceDependencies, listing, resourceList>>
    /\ UNCHANGED vars_session

\* parseTerraformApply, lines 371-398.
ApplyStoreAgents ==
    /\ parsePc = "apply_agents"
    /\ agents' = ApplyAgents(EmptyMap, listing)
    /\ parsePc' = "apply_agents_done"
    /\ UNCHANGED <<rawGraph, resourceDependencies, listing, resourceList>>
    /\ UNCHANGED vars_session

\* parseTerraformPlan, lines 310-334.
PlanAssociate ==
    /\ parsePc = "plan_associate"
    /\ resourceList' = Associate(listing, agents, resourceDependencies)
    /\ parsePc' = "plan_done"
    /\ UNCHANGED <<rawGraph, resourceDependencies, listing, agents>>
    /\ UNCHANGED vars_session

\* parseTerraformApply, lines 400-424.
ApplyAssociate ==
    /\ parsePc = "apply_associate"
    /\ resourceList' = Associate(listing, agents, resourceDependencies)
    /\ parsePc' = "apply_done"
    /\ UNCHANGED <<rawGraph, resourceDependencies, listing, agents>>
    /\ UNCHANGED vars_session

\* The agent resources of a root module, with every choice of attributes.
InitAgents ==
    /\ NoSession
    /\ parsePc \in {"plan_agents", "apply_agents"}
    /\ listing \in SeqsUpTo(AgentResources \cup {r \in OtherResources : r.Name = "x"},
                            MaxResources)
    /\ rawGraph = NotCalled /\ resourceDependencies = NotCalled
    /\ agents = NotCalled /\ resourceList = NotCalled

NextAgents == PlanStoreAgents \/ ApplyStoreAgents

SpecAgents == InitAgents /\ [][NextAgents]_allvars

\* The inputs of the association: a listing, an agent table and a dependency
\* map, each chosen freely.
PlainResources ==
    [Type : ResourceTypes, Name : ResourceNames, attrs : {NoAttrs}]
AgentKeys == { "coder_agent." \o n : n \in ResourceNames }
AgentTables ==
    UNION { { [k \in keys |-> [Id |-> k, Auth |-> Token("")]] } : keys \in SUBSET AgentKeys }
DependencyLists == SeqsUpTo(AgentKeys \cup {"null_resource.y"}, MaxDeps)
DependencyMaps ==
    UNION { [keys -> DependencyLists] : keys \in SUBSET {"null_resource.x", "null_resource.y"} }

InitCorrelate ==
    /\ NoSession
    /\ parsePc \in {"plan_associate", "apply_associate"}
    /\ listing \in SeqsUpTo(PlainResources, MaxResources)
    /\ agents \in AgentTables
    /\ resourceDependencies \in DependencyMaps
    /\ rawGraph = NotCalled /\ resourceList = NotCalled

NextCorrelate == PlanAssociate \/ ApplyAssociate

SpecCorrelate == InitCorrelate /\ [][NextCorrelate]_allvars

\* ------------------------------------------------------- main control thread
\* Faulty variant of Return: the deferred Close of the pipes left out.
ReturnNoClose(e) ==
    /\ pc' = "done"
    /\ retErr' = e
    /\ shutdown' = TRUE
    /\ UNCHANGED <<rawClosed, relClosed>>

\* A return of Provision runs its deferred calls: shutdownFunc() (line 26) and
\* the Close of both ends of every pipe created so far (lines 75-76, 132-133).
Return(e) ==
    /\ pc' = "done"
    /\ retErr' = e
    /\ shutdown' = TRUE
    /\ rawClosed' = (rawClosed \/ raw # "off")
    /\ relClosed' = (relClosed \/ rel # "off")

Goto(p) ==
    /\ pc' = p
    /\ UNCHANGED <<retErr, shutdown, rawClosed, relClosed>>

\* Lines 28-53: the first Recv, and the start of the cancel listener. Recv
\* fails when the stream's context is done.
RecvFirst ==
    /\ pc = "recv" /\ ~crashed
    /\ \E m \in {"start", "cancel", "other", "err"} :
         /\ streamDone <=> m = "err"
         /\ request' = m
         /\ IF m = "err" THEN
                /\ Return("recv: stream closed")
                /\ UNCHANGED <<start, listener>>
            ELSE IF Proceeds(m) THEN
                /\ start' = clientStart
                /\ listener' = "recv"
                /\ Goto("write_state")
            ELSE
                /\ Return(Nil)
                /\ UNCHANGED <<start, listener>>
    /\ UNCHANGED <<clientStart, statefile, engineCmds, env, vars, cmd, runErr>>
    /\ UNCHANGED <<streamDone, cancelAt, child, exitCode, pending, outLeft>>
    /\ UNCHANGED <<raw, rawBuf, rawLeft, rel, relBuf, watcher, signalCalls, crashed, sent>>
    /\ UNCHANGED vars_parse

\* Faulty variant of WriteState: the prior state is not written.
WriteStateSkipped ==
    /\ pc = "write_state" /\ ~crashed
    /\ Goto("new_terraform")
    /\ UNCHANGED <<clientStart, request, start, statefile, engineCmds, env, vars, cmd, runErr>>
    /\ UNCHANGED vars_env
    /\ UNCHANGED <<raw, rawBuf, rawLeft, rel, relBuf, watcher, signalCalls, crashed, sent>>
    /\ UNCHANGED vars_parse

\* Lines 54-60: write the prior state to the state file.
WriteState ==
    /\ pc = "write_state" /\ ~crashed
    /\ IF Len(start.state) > 0 THEN
           \E ok \in BOOLEAN :
              IF ok THEN statefile' = start.state /\ Goto("new_terraform")
              ELSE Return("write statefile") /\ UNCHANGED statefile
       ELSE Goto("new_terraform") /\ UNCHANGED statefile
    /\ UNCHANGED <<clientStart, request, start, engineCmds, env, vars, cmd, runErr>>
    /\ UNCHANGED vars_env
    /\ UNCHANGED <<raw, rawBuf, rawLeft, rel, relBuf, watcher, signalCalls, crashed, sent>>
    /\ UNCHANGED vars_parse

\* Lines 62-65: tfexec.NewTerraform.
NewTerraform ==
    /\ pc = "new_terraform" /\ ~crashed
    /\ \E ok \in BOOLEAN :
         IF ok THEN Goto("version") ELSE Return("create new terraform executor")
    /\ UNCHANGED <<clientStart, request, start, statefile, engineCmds, env, vars, cmd, runErr>>
    /\ UNCHANGED vars_env
    /\ UNCHANGED <<raw, rawBuf, rawLeft, rel, relBuf, watcher, signalCalls, crashed, sent>>
    /\ UNCHANGED vars_parse

\* Lines 66-72: terraform.Version under the shutdown context, and the
\* minimum version. A command run under a context that is done fails.
Version ==
    /\ pc = "version" /\ ~crashed
    /\ engineCmds' = Append(engineCmds, "version")
    /\ \E r \in {"ok", "fail", "old"} :
         /\ shutdown => r = "fail"
         /\ CASE r = "ok" -> Goto("spawn_raw")
              [] r = "fail" -> Return("get terraform version")
              [] r = "old" -> Return("terraform version is too old")
    /\ UNCHANGED <<clientStart, request, start, statefile, env, vars, cmd, runErr>>
    /\ UNCHANGED vars_env
    /\ UNCHANGED <<raw, rawBuf, rawLeft, rel, relBuf, watcher, signalCalls, crashed, sent>>
    /\ UNCHANGED vars_parse

\* Lines 74-98: the first pipe, the raw relay goroutine, the plugin cache.
SpawnRaw ==
    /\ pc = "spawn_raw" /\ ~crashed
    /\ raw' = "scan"
    /\ \E cachePath \in {"", "/cache"}, ok \in BOOLEAN :
         IF cachePath # "" /\ ~ok
         THEN /\ pc' = "done" /\ retErr' = "set terraform plugin cache dir"
              /\ shutdown' = TRUE /\ rawClosed' = TRUE
              /\ UNCHANGED relClosed
         ELSE Goto("init")
    /\ UNCHANGED <<clientStart, request, start, statefile, engineCmds, env, vars, cmd, runErr>>
    /\ UNCHANGED vars_env
    /\ UNCHANGED <<rawBuf, rawLeft, rel, relBuf, watcher, signalCalls, crashed, sent>>
    /\ UNCHANGED vars_parse

\* Line 100: terraform.Init is called under the shutdown context; rawLeft
\* becomes the number of lines this run of init writes.
InitCall ==
    /\ pc = "init" /\ ~crashed
    /\ engineCmds' = Append(engineCmds, "init")
    /\ IF shutdown
       THEN Return("initialize terraform") /\ UNCHANGED rawLeft
       ELSE Goto("init_run") /\ rawLeft' \in 0..rawLeft
    /\ UNCHANGED <<clientStart, request, start, statefile, env, vars, cmd, runErr>>
    /\ UNCHANGED vars_env
    /\ UNCHANGED <<raw, rawBuf, rel, relBuf, watcher, signalCalls, crashed, sent>>
    /\ UNCHANGED vars_parse

\* Lines 100-106: terraform.Init returns, once every write of its output to
\* the pipe has been read; on success the reader side is closed.
InitReturn ==
    /\ pc = "init_run" /\ ~crashed
    /\ rawLeft = 0
    /\ \E ok \in BOOLEAN :
         IF ok THEN
            /\ pc' = "params" /\ rawClosed' = TRUE
            /\ UNCHANGED <<retErr, shutdown, relClosed>>
         ELSE Return("initialize terraform")
    /\ UNCHANGED <<clientStart, request, start, statefile, engineCmds, env, vars, cmd, runErr>>
    /\ UNCHANGED vars_env
    /\ UNCHANGED <<raw, rawBuf, rawLeft, rel, relBuf, watcher, signalCalls, crashed, sent>>
    /\ UNCHANGED vars_parse

\* Lines 108-128: the environment and the classification of the parameters.
Classify ==
    /\ pc = "params" /\ ~crashed
    /\ LET r == ClassifyParameters(start)
       IN IF r.err # Nil
          THEN Return(r.err) /\ UNCHANGED <<env, vars>>
          ELSE env' = r.env /\ vars' = r.vars /\ Goto("prepare")
    /\ UNCHANGED <<clientStart, request, start, statefile, engineCmds, cmd, runErr>>
    /\ UNCHANGED vars_env
    /\ UNCHANGED <<raw, rawBuf, rawLeft, rel, relBuf, watcher, signalCalls, crashed, sent>>
    /\ UNCHANGED vars_parse

\* Lines 130-216: the second pipe, the structured relay goroutine, the
\* command and the interrupt watcher goroutine.
Prepare ==
    /\ pc = "prepare" /\ ~crashed
    /\ rel' = "decode"
    /\ cmd' = [args |-> BuildArgs(start, vars), env |-> env, Process |-> Nil]
    /\ watcher' = "select"
    /\ Goto("run")
    /\ UNCHANGED <<clientStart, request, start, statefile, engineCmds, env, vars, runErr>>
    /\ UNCHANGED vars_env
    /\ UNCHANGED <<raw, rawBuf, rawLeft, relBuf, signalCalls, crashed, sent>>
    /\ UNCHANGED vars_parse

\* Line 217, first half: cmd.Run starts the process and sets cmd.Process; a
\* command whose context is done, or whose fork fails, is not started.
\* outLeft becomes the number of lines this run of the process writes.
CmdStart ==
    /\ pc = "run" /\ ~crashed
    /\ \E ok \in BOOLEAN :
         /\ streamDone => ~ok
         /\ IF ok THEN
               /\ cmd' = [cmd EXCEPT !.Process = "process"]
               /\ child' = "running"
               /\ engineCmds' = Append(engineCmds, Head(cmd.args))
               /\ outLeft' \in 0..outLeft
               /\ Goto("wait")
               /\ UNCHANGED runErr
            ELSE
               /\ runErr' = "start: failed"
               /\ Goto("run_err")
               /\ UNCHANGED <<cmd, child, engineCmds, outLeft>>
    /\ UNCHANGED <<clientStart, request, start, statefile, env, vars>>
    /\ UNCHANGED <<streamDone, listener, cancelAt, exitCode, pending>>
    /\ UNCHANGED <<raw, rawBuf, rawLeft, rel, relBuf, watcher, signalCalls, crashed, sent>>
    /\ UNCHANGED vars_parse

\* Line 217, second half: cmd.Run returns when the process has exited and
\* all its output has been written to the pipe.
CmdWait ==
    /\ pc = "wait" /\ ~crashed
    /\ child = "exited" /\ pending = <<>>
    /\ IF exitCode = 0
       THEN Goto("run_ok") /\ UNCHANGED runErr
       ELSE Goto("run_err") /\ runErr' = "exit status 1"
    /\ UNCHANGED <<clientStart, request, start, statefile, engineCmds, env, vars, cmd>>
    /\ UNCHANGED vars_env
    /\ UNCHANGED <<raw, rawBuf, rawLeft, rel, relBuf, watcher, signalCalls, crashed, sent>>
    /\ UNCHANGED vars_parse

\* Lines 218-246: cmd.Run failed.
RunFailed ==
    /\ pc = "run_err" /\ ~crashed
    /\ IF start.dryRun THEN
          IF DryRunFailureCompletes(shutdown)
          THEN sent' = Sent(Complete(<<>>, "", runErr)) /\ Return(SendErr)
          ELSE Return(PlanError(runErr)) /\ UNCHANGED sent
       ELSE
          IF statefile = NoFile
          THEN Return("read file") /\ UNCHANGED sent
          ELSE /\ sent' = Sent(ApplyFailureResponse(statefile, runErr))
               /\ Return(SendErr)
    /\ UNCHANGED <<clientStart, request, start, statefile, engineCmds, env, vars, cmd, runErr>>
    /\ UNCHANGED vars_env
    /\ UNCHANGED <<raw, rawBuf, rawLeft, rel, relBuf, watcher, signalCalls, crashed>>
    /\ UNCHANGED vars_parse

\* Line 247: the reader side of the second pipe is closed.
CloseReader ==
    /\ pc = "run_ok" /\ ~crashed
    /\ pc' = "drain" /\ relClosed' = TRUE
    /\ UNCHANGED <<retErr, shutdown, rawClosed>>
    /\ UNCHANGED <<clientStart, request, start, statefile, engineCmds, env, vars, cmd, runErr>>
    /\ UNCHANGED vars_env
    /\ UNCHANGED <<raw, rawBuf, rawLeft, rel, relBuf, watcher, signalCalls, crashed, sent>>
    /\ UNCHANGED vars_parse

\* Faulty variant of Drain: closeChan is not waited for.
DrainNoWait ==
    /\ pc = "drain" /\ ~crashed
    /\ Goto("parse")
    /\ UNCHANGED <<clientStart, request, start, statefile, engineCmds, env, vars, cmd, runErr>>
    /\ UNCHANGED vars_env
    /\ UNCHANGED <<raw, rawBuf, rawLeft, rel, relBuf, watcher, signalCalls, crashed, sent>>
    /\ UNCHANGED vars_parse

\* Line 248: <-closeChan, closed when the structured relay returns.
Drain ==
    /\ pc = "drain" /\ ~crashed
    /\ rel = "done"
    /\ Goto("parse")
    /\ UNCHANGED <<clientStart, request, start, statefile, engineCmds, env, vars, cmd, runErr>>
    /\ UNCHANGED vars_env
    /\ UNCHANGED <<raw, rawBuf, rawLeft, rel, relBuf, watcher, signalCalls, crashed, sent>>
    /\ UNCHANGED vars_parse

\* The artifacts `terraform show` and `terraform graph` may yield in a
\* session: none, or a resource that depends on an agent.
SessionArtifacts ==
    { [listing |-> <<>>, agents |-> EmptyMap, dependencies |-> EmptyMap],
      [listing |-> << [Type |-> "coder_agent", Name |-> "x", attrs |-> NoAttrs],
                      [Type |-> "null_resource", Name |-> "x", attrs |-> NoAttrs] >>,
       agents |-> [k \in {"coder_agent.x"} |-> [Id |-> "", Auth |-> Token("")]],
       dependencies |-> [k \in {"null_resource.x"} |-> << "coder_agent.x" >>]] }

\* The resource lists the parsing functions may return for them.
ParsedResources ==
    { Associate(a.listing, a.agents, a.dependencies) : a \in SessionArtifacts }

\* Lines 336-342: the response of parseTerraformPlan.
PlanResponse(rs) == Complete(rs, "", "")

\* Faulty variant of ApplyResponse: the state is left out.
ApplyResponseNoState(statefileContent, rs) == Complete(rs, "", "")

\* Lines 427-434: the response of parseTerraformApply.
ApplyResponse(statefileContent, rs) == Complete(rs, statefileContent, "")

\* Lines 250-259 with parseTerraformPlan (262-343) and parseTerraformApply
\* (345-435): show the artifact, build the response, send it.
ParseAndSend ==
    /\ pc = "parse" /\ ~crashed
    /\ IF start.dryRun THEN
          \E ok \in BOOLEAN, rs \in ParsedResources :
             /\ ~ok => rs = <<>>
             /\ engineCmds' = engineCmds \o (IF ok THEN << "show", "graph" >> ELSE << "show" >>)
             /\ IF ok THEN sent' = Sent(PlanResponse(rs)) /\ Return(SendErr)
                ELSE Return("show terraform plan file") /\ UNCHANGED sent
       ELSE
          IF statefile = NoFile
          THEN Return("read file") /\ UNCHANGED <<sent, engineCmds>>
          ELSE \E ok \in BOOLEAN, rs \in ParsedResources :
             /\ ~ok => rs = <<>>
             /\ engineCmds' = engineCmds \o (IF ok THEN << "show", "graph" >> ELSE << "show" >>)
             /\ IF ok THEN sent' = Sent(ApplyResponse(statefile, rs)) /\ Return(SendErr)
                ELSE Return("show state file") /\ UNCHANGED sent
    /\ UNCHANGED <<clientStart, request, start, statefile, env, vars, cmd, runErr>>
    /\ UNCHANGED vars_env
    /\ UNCHANGED <<raw, rawBuf, rawLeft, rel, relBuf, watcher, signalCalls, crashed>>
    /\ UNCHANGED vars_parse

\* ------------------------------------------------------------- cancel listener
\* The phase of the session: before the plan/apply process is started
\* (write of the state, version check, init, classification), while it runs,
\* after it has exited, after Provision has returned.
Phase ==
    CASE pc = "done" -> "returned"
      [] child = "exited" \/ pc = "run_err" -> "exited"
      [] child = "running" -> "running"
      [] OTHER -> "starting"

\* Lines 39-52: one iteration of the listener's loop.
ListenerRecv ==
    /\ listener = "recv" /\ ~crashed
    /\ \E m \in {"cancel", "other", "err"} :
         /\ streamDone <=> m = "err"
         /\ cancelAt' = IF m = "cancel" THEN Phase ELSE cancelAt
         /\ IF m = "err" THEN
               /\ listener' = "done"
               /\ UNCHANGED shutdown
            ELSE IF IsCancel(m) THEN
               /\ shutdown' = TRUE
               /\ listener' = "done"
            ELSE
               /\ UNCHANGED <<shutdown, listener>>
    /\ UNCHANGED vars_main
    /\ UNCHANGED <<streamDone, child, exitCode, pending, outLeft>>
    /\ UNCHANGED vars_relays
    /\ UNCHANGED vars_parse

\* ------------------------------------------------------------------ raw relay
\* terraform init writes a line to its stdout; the write to the pipe
\* completes when scanner.Scan (line 79) has read it.
RawScan ==
    /\ pc = "init_run" /\ raw = "scan" /\ ~crashed
    /\ rawLeft > 0
    /\ rawLeft' = rawLeft - 1
    /\ rawBuf' = [kind |-> "text", text |-> "init output"]
    /\ raw' = "send"
    /\ UNCHANGED vars_main
    /\ UNCHANGED vars_env
    /\ UNCHANGED <<rawClosed, rel, relBuf, relClosed, watcher, signalCalls, crashed, sent, shutdown>>
    /\ UNCHANGED vars_parse

\* Lines 80-87: the scanned line is sent as a DEBUG log.
RawSend ==
    /\ raw = "send" /\ ~crashed
    /\ sent' = Sent(Log("DEBUG", rawBuf.text))
    /\ rawBuf' = NoLine
    /\ raw' = "scan"
    /\ UNCHANGED vars_main
    /\ UNCHANGED vars_env
    /\ UNCHANGED <<rawClosed, rawLeft, rel, relBuf, relClosed, watcher, signalCalls, crashed, shutdown>>
    /\ UNCHANGED vars_parse

\* Line 79: scanner.Scan returns false once the pipe is closed.
RawEnd ==
    /\ raw = "scan" /\ rawClosed /\ ~crashed
    /\ raw' = "done"
    /\ UNCHANGED vars_main
    /\ UNCHANGED vars_env
    /\ UNCHANGED <<rawBuf, rawClosed, rawLeft, rel, relBuf, relClosed, watcher, signalCalls, crashed, sent, shutdown>>
    /\ UNCHANGED vars_parse

\* ----------------------------------------------------------- structured relay
\* Lines 137-147: decoder.Decode reads the next line of the child's output;
\* a decode error ends the goroutine, an unknown level is skipped.
RelDecode ==
    /\ rel = "decode" /\ ~crashed
    /\ ~relClosed /\ pending # <<>>
    /\ pending' = Tail(pending)
    /\ LET line == Head(pending)
       IN IF line.kind = "malformed"
          THEN rel' = "done" /\ UNCHANGED relBuf
          ELSE IF convertTerraformLogLevel(line.level).err # Nil
          THEN UNCHANGED <<rel, relBuf>>
          ELSE rel' = "send" /\ relBuf' = line
    /\ UNCHANGED vars_main
    /\ UNCHANGED <<streamDone, listener, cancelAt, child, exitCode, outLeft>>
    /\ UNCHANGED <<raw, rawBuf, rawClosed, rawLeft, relClosed, watcher, signalCalls, crashed, sent, shutdown>>
    /\ UNCHANGED vars_parse

\* Lines 148-165: the record is sent as a log; a diagnostic of a known
\* severity is sent next.
RelSend ==
    /\ rel = "send" /\ ~crashed
    /\ sent' = Sent(Log(convertTerraformLogLevel(relBuf.level).level, relBuf.message))
    /\ IF relBuf.diagnostic = NoDiag
       THEN rel' = "decode" /\ relBuf' = NoLine
       ELSE IF convertTerraformLogLevel(relBuf.diagnostic.severity).err # Nil
       THEN rel' = "decode" /\ relBuf' = NoLine
       ELSE rel' = "send_diag" /\ UNCHANGED relBuf
    /\ UNCHANGED vars_main
    /\ UNCHANGED vars_env
    /\ UNCHANGED <<raw, rawBuf, rawClosed, rawLeft, relClosed, watcher, signalCalls, crashed, shutdown>>
    /\ UNCHANGED vars_parse

\* Lines 166-173: the diagnostic's detail is sent at its severity.
RelSendDiag ==
    /\ rel = "send_diag" /\ ~crashed
    /\ sent' = Sent(Log(convertTerraformLogLevel(relBuf.diagnostic.severity).level,
                        relBuf.diagnostic.detail))
    /\ rel' = "decode" /\ relBuf' = NoLine
    /\ UNCHANGED vars_main
    /\ UNCHANGED vars_env
    /\ UNCHANGED <<raw, rawBuf, rawClosed, rawLeft, relClosed, watcher, signalCalls, crashed, shutdown>>
    /\ UNCHANGED vars_parse

\* Lines 139-142: Decode fails once the pipe is closed; closeChan is closed.
RelEnd ==
    /\ rel = "decode" /\ relClosed /\ ~crashed
    /\ rel' = "done"
    /\ UNCHANGED vars_main
    /\ UNCHANGED vars_env
    /\ UNCHANGED <<raw, rawBuf, rawClosed, rawLeft, relBuf, relClosed, watcher, signalCalls, crashed, sent, shutdown>>
    /\ UNCHANGED vars_parse

\* ------------------------------------------------------------ interrupt watcher
\* Lines 206-213: the select returns on the stream's context, or signals the
\* process on shutdown. cmd.Process is read without synchronisation with
\* cmd.Run: it is nil until the process is started, and Signal on a nil
\* handle panics. Signal on a process already waited for returns an error.
WatcherFire ==
    /\ watcher = "select" /\ ~crashed
    /\ \/ /\ streamDone
          /\ UNCHANGED <<signalCalls, crashed>>
       \/ /\ shutdown
          /\ signalCalls' = Append(signalCalls,
                [handle |-> cmd.Process,
                 delivered |-> (cmd.Process # Nil /\ pc = "wait")])
          /\ crashed' = (cmd.Process = Nil)
    /\ watcher' = "done"
    /\ UNCHANGED vars_main
    /\ UNCHANGED vars_env
    /\ UNCHANGED <<raw, rawBuf, rawClosed, rawLeft, rel, relBuf, relClosed, sent, shutdown>>
    /\ UNCHANGED vars_parse

\* ------------------------------------------------------------------ environment
\* The stream's context is cancelled (the client went away).
StreamCancel ==
    /\ ~streamDone /\ ~crashed
    /\ streamDone' = TRUE
    /\ shutdown' = TRUE
    /\ UNCHANGED vars_main
    /\ UNCHANGED <<listener, cancelAt, child, exitCode, pending, outLeft>>
    /\ UNCHANGED vars_relays
    /\ UNCHANGED vars_parse

\* The plan/apply process writes a line to its stdout.
ChildWrite ==
    /\ child = "running" /\ ~crashed
    /\ outLeft > 0 /\ pending = <<>>
    /\ \E line \in OutLines : pending' = Append(pending, line)
    /\ outLeft' = outLeft - 1
    /\ UNCHANGED vars_main
    /\ UNCHANGED <<streamDone, listener, cancelAt, child, exitCode>>
    /\ UNCHANGED vars_relays
    /\ UNCHANGED shutdown
    /\ UNCHANGED vars_parse

\* terraform apply writes the state file.
ChildWriteState ==
    /\ child = "running" /\ ~crashed
    /\ ~start.dryRun /\ statefile # "s1"
    /\ statefile' = "s1"
    /\ UNCHANGED <<clientStart, pc, request, start, retErr, engineCmds, env, vars, cmd, runErr>>
    /\ UNCHANGED vars_env
    /\ UNCHANGED vars_relays
    /\ UNCHANGED shutdown
    /\ UNCHANGED vars_parse

\* The plan/apply process exits, on its own, interrupted or killed.
ChildExit ==
    /\ child = "running" /\ ~crashed
    /\ outLeft = 0
    /\ child' = "exited"
    /\ \E code \in {0, 1} : exitCode' = code
    /\ UNCHANGED vars_main
    /\ UNCHANGED <<streamDone, listener, cancelAt, pending, outLeft>>
    /\ UNCHANGED vars_relays
    /\ UNCHANGED shutdown
    /\ UNCHANGED vars_parse

\* ------------------------------------------------------------- specification
Next ==
    \/ RecvFirst \/ WriteState \/ NewTerraform \/ Version \/ SpawnRaw
    \/ InitCall \/ InitReturn \/ Classify \/ Prepare \/ CmdStart \/ CmdWait
    \/ RunFailed \/ CloseReader \/ Drain \/ ParseAndSend
    \/ ListenerRecv
    \/ RawScan \/ RawSend \/ RawEnd
    \/ RelDecode \/ RelSend \/ RelSendDiag \/ RelEnd
    \/ WatcherFire
    \/ StreamCancel \/ ChildWrite \/ ChildWriteState \/ ChildExit

Spec == Init /\ [][Next]_allvars

SpecParams == InitParams /\ [][Next]_allvars

\* The steps of each thread of control. The Go scheduler runs every goroutine
\* that can take a step; a Recv on a stream whose context is done fails; the
\* plan/apply process, once started, writes its output and exits.
MainThread ==
    \/ RecvFirst \/ WriteState \/ NewTerraform \/ Version \/ SpawnRaw
    \/ InitCall \/ InitReturn \/ Classify \/ Prepare \/ CmdStart \/ CmdWait
    \/ RunFailed \/ CloseReader \/ Drain \/ ParseAndSend
ListenerThread == ListenerRecv /\ streamDone
RawRelayThread == RawScan \/ RawSend \/ RawEnd
RelayThread == RelDecode \/ RelSend \/ RelSendDiag \/ RelEnd
ChildProcess == ChildWrite \/ ChildExit

Fairness ==
    /\ WF_allvars(MainThread)
    /\ WF_allvars(ListenerThread)
    /\ WF_allvars(RawRelayThread)
    /\ WF_allvars(RelayThread)
    /\ WF_allvars(WatcherFire)
    /\ WF_allvars(ChildProcess)

\* Sessions with a prior state, under the scheduling above.
InitLive ==
    InitWith(StartRequests(SessionParamLists, {"START"}, {"s0"}, BOOLEAN),
             MaxRawLines, MaxLiveOutLines)

SpecLive == InitLive /\ [][Next]_allvars /\ Fairness

\* ---------------------------------------------------------------- properties
IsComplete(m) == m.type = "complete"
Completes == SelectSeq(sent, IsComplete)
Returned == pc = "done"
ReturnedError == pc = "done" /\ retErr # Nil

\* C1: once Provision has returned (Complete sent or error returned), no
\* response is sent on the stream any more.
C1_TerminalResponseIsLast == [][Returned => sent' = sent]_allvars

\* C2: a session opened by Start ends with exactly one Complete and a nil
\* error, or with no Complete and a non-nil error; never two Completes.
C2_OneCompleteOrError ==
    /\ Len(Completes) <= 1
    /\ (Returned /\ request = "start") =>
          \/ Len(Completes) = 1 /\ retErr = Nil
          \/ Len(Completes) = 0 /\ retErr # Nil

C2_Witness ==
    /\ Returned /\ request = "start" /\ retErr = Nil
    /\ Len(Completes) = 1 /\ Completes[1].error = ""
    /\ Len(sent) > 1

\* Errors of steps that do not observe the shutdown context: they fail for
\* reasons of their own, cancelled or not.
UnrelatedErrors ==
    { "write statefile", "create new terraform executor", "terraform version is too old",
      "set terraform plugin cache dir", "unsupported parameter type",
      "show terraform plan file", "send: stream closed" }

\* C3: a dry run that received Cancel after Start and before the plan
\* process exited (during the version check, init or the plan) ends with
\* Complete{no resources, non-empty error} and a nil error, never with a bare
\* error (failures unrelated to the cancellation set aside).
C3_DryRunCancelCompletes ==
    (/\ Returned /\ request = "start" /\ start.dryRun
     /\ cancelAt \in {"starting", "running"}
     /\ retErr \notin UnrelatedErrors) =>
        /\ retErr = Nil
        /\ Len(Completes) = 1
        /\ Completes[1].resources = <<>> /\ Completes[1].error # ""

\* C4: a real run whose apply failed sends Complete{state file bytes, error,
\* no resources} and returns nil if the state file can be read, and returns
\* an error without Complete if it cannot (the stream being open).
C4_ApplyFailureReportsState ==
    (Returned /\ request = "start" /\ ~start.dryRun /\ runErr # Nil /\ ~streamDone) =>
        IF statefile # NoFile
        THEN /\ retErr = Nil
             /\ Completes = << Complete(<<>>, statefile, runErr) >>
             /\ runErr # ""
        ELSE /\ retErr # Nil
             /\ Completes = <<>>

C4_Witness ==
    /\ Returned /\ request = "start" /\ ~start.dryRun /\ ~streamDone
    /\ runErr = "exit status 1" /\ cancelAt = "running"
    /\ statefile = "s1" /\ start.state = "s0"
    /\ Len(Completes) = 1 /\ Completes[1].state = "s1"

\* C5: when a dry run's plan has failed (the stream being open), the session
\* sends Complete{error text} and returns nil if shutdown is done at that
\* moment, and returns an error without Complete otherwise.
C5_DryRunFailure ==
    [][(pc = "run_err" /\ pc' = "done" /\ start.dryRun /\ ~streamDone) =>
          IF shutdown
          THEN sent' = Append(sent, Complete(<<>>, "", runErr)) /\ retErr' = Nil
          ELSE sent' = sent /\ retErr' \notin {Nil, "running"}]_allvars

C5_Witness ==
    /\ Returned /\ request = "start" /\ start.dryRun /\ ~streamDone
    /\ runErr = "exit status 1" /\ cancelAt = "running"
    /\ retErr = Nil
    /\ Completes = << Complete(<<>>, "", "exit status 1") >>

\* C6: a first message that is Cancel, or anything but Start, makes
\* Provision return nil with no response sent, no state file written, no
\* engine command invoked and no goroutine started; only Start proceeds.
C6_NonStartIsNoOp ==
    /\ request \in {"cancel", "other"} =>
          /\ Returned /\ retErr = Nil
          /\ sent = <<>> /\ statefile = NoFile /\ engineCmds = <<>>
          /\ listener = "off" /\ raw = "off" /\ rel = "off" /\ watcher = "off"
    /\ start # NoStart => request = "start"

C6_Witness == request = "other" /\ Returned /\ retErr = Nil /\ ~streamDone

\* C7: before Provision returns, shutdown is done exactly if the listener
\* received Cancel or the stream's context is done; the listener has stopped
\* exactly if it received Cancel or a receive failed.
C7_ShutdownIffCancel ==
    request = "start" =>
        /\ ~Returned => (shutdown <=> (cancelAt # "none" \/ streamDone))
        /\ cancelAt # "none" => (shutdown /\ listener = "done")
        /\ listener = "done" => (cancelAt # "none" \/ streamDone)

C7_Witness ==
    /\ request = "start" /\ ~Returned /\ ~streamDone
    /\ cancelAt = "running" /\ shutdown /\ listener = "done"

\* C8: the interrupt is sent at most once, and only on a valid process handle.
C8_InterruptOnceOnValidHandle ==
    /\ Len(signalCalls) <= 1
    /\ \A i \in 1..Len(signalCalls) : signalCalls[i].handle # Nil

\* C9: a malformed line does not end the structured relay: a well-formed
\* record of a known level written to the open pipe always finds the relay
\* running, so that it is forwarded.
WellFormed(line) ==
    line.kind = "record" /\ convertTerraformLogLevel(line.level).err = Nil

C9_MalformedLineIsSkipped ==
    (pending # <<>> /\ WellFormed(Head(pending)) /\ ~relClosed) => rel # "done"

\* C10: environment-variable parameters are in the child's environment and
\* only there, provisioner variables are -var arguments, in order, and only
\* there; an unsupported scheme ends the session with an error before the
\* plan/apply process is started and without Complete.
OfScheme(ps, scheme) == SelectSeq(ps, LAMBDA p : p.scheme = scheme)
Formatted(ps) == [i \in 1..Len(ps) |-> ps[i].name \o "=" \o ps[i].value]
HasUnsupported(ps) ==
    \E i \in 1..Len(ps) : ps[i].scheme \notin {"ENVIRONMENT_VARIABLE", "PROVISIONER_VARIABLE"}
RECURSIVE AfterVar(_)
AfterVar(a) ==
    IF Len(a) < 2 THEN <<>>
    ELSE IF a[1] = "-var" THEN << a[2] >> \o AfterVar(SubSeq(a, 3, Len(a)))
    ELSE AfterVar(Tail(a))
BeforeClassification ==
    {"recv", "write_state", "new_terraform", "version", "spawn_raw", "init", "init_run", "params"}

C10_ParameterRouting ==
    request = "start" =>
      LET ps == start.parameterValues
          nBase == Len(BaseEnv(start))
      IN /\ HasUnsupported(ps) =>
              /\ child = "none" /\ cmd = NoCmd /\ Completes = <<>>
              /\ pc \notin BeforeClassification => ReturnedError
         /\ cmd # NoCmd =>
              /\ SubSeq(cmd.env, 1, nBase) = BaseEnv(start)
              /\ SubSeq(cmd.env, nBase + 1, Len(cmd.env))
                    = Formatted(OfScheme(ps, "ENVIRONMENT_VARIABLE"))
              /\ AfterVar(cmd.args) = Formatted(OfScheme(ps, "PROVISIONER_VARIABLE"))
              /\ Len(cmd.args) = 6 + (IF start.transition = "DESTROY" THEN 1 ELSE 0)
                                   + 2 * Len(OfScheme(ps, "PROVISIONER_VARIABLE"))

C10_Witness ==
    /\ request = "start" /\ child = "running"
    /\ Len(start.parameterValues) = 2
    /\ start.parameterValues[1].scheme = "PROVISIONER_VARIABLE"
    /\ start.parameterValues[2].scheme = "ENVIRONMENT_VARIABLE"
    /\ start.transition = "DESTROY"
    /\ cmd.args[Len(cmd.args)] = "a=1" /\ cmd.env[Len(cmd.env)] = "b=1"

\* C11: a decoded record of an unknown level yields no Log and the relay
\* goes on; a record of a known level yields one Log of the mapped level and
\* the record's message, and a record that carries a diagnostic yields a
\* second Log right after it, the diagnostic's detail at its severity.
C11_RecordYieldsLogs ==
    [][/\ (/\ rel = "decode" /\ pending # <<>> /\ pending' = Tail(pending)
           /\ Head(pending).kind = "record") =>
              IF convertTerraformLogLevel(Head(pending).level).err # Nil
              THEN rel' = "decode" /\ sent' = sent
              ELSE rel' = "send" /\ relBuf' = Head(pending) /\ sent' = sent
       /\ (rel = "send" /\ rel' # "send") =>
              /\ sent' = Sent(Log(convertTerraformLogLevel(relBuf.level).level,
                                  relBuf.message))
              /\ rel' = IF relBuf.diagnostic = NoDiag THEN "decode" ELSE "send_diag"
       /\ (rel = "send_diag" /\ rel' # "send_diag") =>
              /\ sent' = Sent(Log(convertTerraformLogLevel(relBuf.diagnostic.severity).level,
                                  relBuf.diagnostic.detail))
              /\ rel' = "decode"]_allvars

\* C12: the raw relay sends no Log once the plan/apply process has been
\* started or the structured relay is running: the two relays never overlap.
C12_RelaysNeverOverlap ==
    [][(raw = "send" /\ raw' # "send") => (child = "none" /\ rel = "off")]_allvars

\* C13: once Provision has returned and the stream is closed, every goroutine
\* of the session (cancel listener, raw relay, structured relay, interrupt
\* watcher) eventually terminates, on every return path. A panic ends the
\* process and every goroutine with it.
Stopped(g) == g \in {"off", "done"}
AllStopped ==
    crashed \/ (Stopped(listener) /\ Stopped(raw) /\ Stopped(rel) /\ Stopped(watcher))

C13_GoroutinesTerminate == (Returned /\ streamDone) ~> AllStopped

C13_Witness ==
    /\ ReturnedError /\ streamDone /\ ~crashed
    /\ listener = "done" /\ raw = "done" /\ rel = "done" /\ watcher = "done"

\* C14: the output of the association is the non-agent resources of the
\* listing whose key type.name is a key of the dependency map, in the order
\* of the listing, each with the agent-table entry of the first identifier of
\* its dependency list that is a key of the agent table, or with no agent.
Kept(rs, deps) ==
    SelectSeq(rs, LAMBDA r : r.Type # "coder_agent" /\ ResourceKey(r) \in DOMAIN deps)
Hits(table, list) == { j \in DOMAIN list : list[j] \in DOMAIN table }
ExpectedAgent(table, list) ==
    IF Hits(table, list) = {} THEN NoAgent
    ELSE table[list[CHOOSE j \in Hits(table, list) : \A k \in Hits(table, list) : j <= k]]

C14_Correlation ==
    parsePc \in {"plan_done", "apply_done"} =>
        LET kept == Kept(listing, resourceDependencies)
        IN /\ Len(resourceList) = Len(kept)
           /\ \A i \in 1..Len(kept) :
                 /\ resourceList[i].Name = kept[i].Name
                 /\ resourceList[i].Type = kept[i].Type
                 /\ resourceList[i].Agent
                       = ExpectedAgent(agents, resourceDependencies[ResourceKey(kept[i])])
           /\ \A i \in 1..Len(resourceList) :
                 /\ resourceList[i].Type # "coder_agent"
                 /\ (resourceList[i].Type \o "." \o resourceList[i].Name)
                       \in DOMAIN resourceDependencies

\* Two agents in the table, a resource that depends on both: the first wins;
\* another resource of the listing is left out.
C14_Witness ==
    /\ parsePc = "apply_done"
    /\ DOMAIN agents = AgentKeys
    /\ Len(listing) = 2 /\ Len(resourceList) = 1
    /\ resourceDependencies["null_resource.x"] = << "coder_agent.y", "coder_agent.x" >>
    /\ resourceList[1].Agent = agents["coder_agent.y"]

\* C15: an agent carries one auth variant. From a state: InstanceId with the
\* instance_id attribute when that is non-empty, Token with the token
\* attribute otherwise. From a plan: InstanceId with an empty value when an
\* instance_id expression is present, Token with an empty token otherwise.
LastOf(rs, key) ==
    rs[CHOOSE i \in DOMAIN rs :
          /\ rs[i].Type = "coder_agent" /\ ResourceKey(rs[i]) = key
          /\ \A j \in DOMAIN rs :
                (rs[j].Type = "coder_agent" /\ ResourceKey(rs[j]) = key) => j <= i]

C15_OneAuthVariant ==
    parsePc \in {"plan_agents_done", "apply_agents_done"} =>
        /\ DOMAIN agents
              = { ResourceKey(listing[i]) :
                     i \in { j \in DOMAIN listing : listing[j].Type = "coder_agent" } }
        /\ \A key \in DOMAIN agents :
              LET attrs == LastOf(listing, key).attrs
                  auth == agents[key].Auth
                  has(name) == name \in DOMAIN attrs
              IN /\ auth.variant \in {"Token", "InstanceId"}
                 /\ IF parsePc = "apply_agents_done"
                    THEN IF has("instance_id") /\ attrs["instance_id"] # ""
                         THEN auth = [variant |-> "InstanceId", value |-> attrs["instance_id"]]
                         ELSE auth = [variant |-> "Token",
                                      value |-> IF has("token") THEN attrs["token"] ELSE ""]
                    ELSE IF has("instance_id")
                         THEN auth = [variant |-> "InstanceId", value |-> ""]
                         ELSE auth = [variant |-> "Token", value |-> ""]

\* An agent of a state with no instance_id attribute and a token.
C15_Witness ==
    /\ parsePc = "apply_agents_done"
    /\ "coder_agent.x" \in DOMAIN agents
    /\ \E i \in DOMAIN listing :
          /\ ResourceKey(listing[i]) = "coder_agent.x"
          /\ DOMAIN listing[i].attrs = {"token"} /\ listing[i].attrs["token"] = "v"
    /\ agents["coder_agent.x"].Auth = [variant |-> "Token", value |-> "v"]

\* C16: a non-empty prior state is in the state file before any engine
\* command is invoked; if the engine does not modify the file, the Complete
\* of a real run carries the prior state, on the zero-exit and on the
\* non-zero-exit path; a failed write ends the session with an error before
\* any engine command.
C16_StateRoundTrip ==
    (request = "start" /\ start.state # "") =>
        /\ engineCmds # <<>> => statefile # NoFile
        /\ (child = "none" /\ statefile # NoFile) => statefile = start.state
        /\ (pc \notin {"recv", "write_state"} /\ retErr # "write statefile") =>
              statefile # NoFile
        /\ retErr = "write statefile" =>
              (Returned /\ engineCmds = <<>> /\ sent = <<>> /\ statefile = NoFile)
        /\ (Returned /\ ~start.dryRun /\ statefile = start.state /\ Completes # <<>>) =>
              Completes[1].state = start.state

C16_Witness ==
    /\ Returned /\ request = "start" /\ ~start.dryRun /\ retErr = Nil
    /\ start.state = "s0" /\ statefile = "s0"
    /\ child = "exited" /\ exitCode = 1
    /\ Len(Completes) = 1 /\ Completes[1].state = "s0" /\ Completes[1].error # ""

\* C17: a clean run (the process exited zero, the artifacts were parsed, the
\* response was sent) ends with one Complete of empty error: the resources
\* and an empty state for a dry run, the resources and the content of the
\* state file after the process exited for a real run.
C17_CleanRunResponse ==
    (Returned /\ request = "start" /\ child = "exited" /\ runErr = Nil /\ retErr = Nil) =>
        /\ exitCode = 0
        /\ \E rs \in ParsedResources :
              Completes = << [type |-> "complete", resources |-> rs,
                              state |-> IF start.dryRun THEN "" ELSE statefile,
                              error |-> ""] >>

C17_Witness ==
    /\ Returned /\ request = "start" /\ ~start.dryRun /\ retErr = Nil
    /\ child = "exited" /\ exitCode = 0 /\ start.state = "s0"
    /\ Len(Completes) = 1
    /\ Completes[1].state = "s1" /\ Completes[1].error = ""
    /\ Len(Completes[1].resources) = 1

\* C18: on the zero-exit path the structured relay has returned when the
\* parsing of the artifacts starts, so that each of its Logs precedes the
\* parsing and the Complete; and the wait for its completion signal ends.
ZeroExitParsing ==
    pc = "parse" \/ (pc = "done" /\ child = "exited" /\ runErr = Nil)

C18_DrainBeforeParse ==
    /\ [](ZeroExitParsing => rel = "done")
    /\ (pc = "drain") ~> (pc = "parse")

\* The relay sent the record it held when the pipe was closed, then returned.
C18_Witness ==
    /\ pc = "parse" /\ rel = "done" /\ ~streamDone
    /\ Len(sent) = 2 /\ sent[1].level = "ERROR" /\ sent[2].output = "d3"

\* C19: the keys of the map are the trimmed labels of the labelled nodes;
\* the list of a label holds the labels of the labelled nodes one edge away
\* from that node, in either direction, and no other; hence for distinct
\* labels B is in the list of A exactly if A is in the list of B.
Range(list) == { list[i] : i \in DOMAIN list }
Labelled(graph) ==
    { graph.nodes[i] : i \in { j \in DOMAIN graph.nodes : graph.nodes[j].label # NoLabel } }
Joined(graph, node) ==
    { m \in Labelled(graph) :
         <<node.Name, m.Name>> \in graph.edges \/ <<m.Name, node.Name>> \in graph.edges }

DirectDependenciesOf(graph, direct) ==
    LET nodes == Labelled(graph)
    IN /\ DOMAIN direct = { Trim(n.label) : n \in nodes }
       /\ \A n \in nodes :
             Range(direct[Trim(n.label)]) = { Trim(m.label) : m \in Joined(graph, n) }
       /\ \A a, b \in DOMAIN direct :
             a # b => (b \in Range(direct[a]) <=> a \in Range(direct[b]))

C19_DirectDependencies ==
    parsePc = "graph_done" => DirectDependenciesOf(rawGraph, resourceDependencies)

\* C19, amended: the same for every graph whose labelled nodes carry
\* pairwise distinct labels.
DistinctLabels(graph) ==
    \A n, m \in Labelled(graph) : n.Name # m.Name => Trim(n.label) # Trim(m.label)

C19_DirectDependenciesDistinctLabels ==
    (parsePc = "graph_done" /\ DistinctLabels(rawGraph)) =>
        DirectDependenciesOf(rawGraph, resourceDependencies)

\* A chain A -> B -> C: B lists both neighbours, A and C do not list each other.
C19_Witness ==
    /\ parsePc = "graph_done" /\ DistinctLabels(rawGraph)
    /\ Cardinality(Labelled(rawGraph)) = 3
    /\ rawGraph.edges = { <<"n1", "n2">>, <<"n2", "n3">> }
    /\ rawGraph.nodes[1].label = << Quote, "A", Quote >>
    /\ Range(resourceDependencies[<< "B" >>]) = { << "A" >>, << "C" >> }
    /\ resourceDependencies[<< "A" >>] = << << "B" >> >>
    /\ resourceDependencies[<< "C" >>] = << << "B" >> >>

\* C20: once the plan/apply process is started, Provision returns, whatever
\* the process wrote: while the main thread waits for the process, the
\* process, the structured relay or the wait itself can take a step.
C20_WaitNeverDeadlocks ==
    (pc = "wait" /\ ~crashed) => ENABLED (CmdWait \/ ChildProcess \/ RelayThread)

====
